---------------------------- MODULE Spec2Model ----------------------------
(***************************************************************************)
(* Model of the change-to-plan pipeline of the semiconductor process agent *)
(* (src/semiconductor_process_agent): SchematicDiffer.analyze_difference,  *)
(* ReasoningEngine.plan_step / _infer_process, the two knowledge-graph     *)
(* queries, and the loop of SemiconductorProcessAgent.generate_flow.       *)
(*                                                                         *)
(* Four specifications share the variables:                                *)
(*   Spec      one run of generate_flow on a freshly constructed agent     *)
(*   SpecPlan  plan_step applied to inputs drawn from bounded sets         *)
(*   SpecDiff  analyze_difference applied to pairs of material maps        *)
(*   SpecInfer _infer_process applied to every record of its domain        *)
(***************************************************************************)
EXTENDS Integers, Sequences, FiniteSets

VARIABLES
    pc,             \* position of the run: see Init / InitPlan / InitDiff
    n_files,        \* len(schematic_files)
    i,              \* loop variable of generate_flow
    map_n,          \* material map of snapshot i
    map_n1,         \* material map of the aligned snapshot i+1
    changes,        \* list returned by analyze_difference
    result,         \* dict returned by plan_step
    found,          \* list returned by find_capable_tools inside plan_step
    wafer_state,    \* self.wafer_state
    process_flow,   \* self.process_flow
    kg,             \* content of the knowledge graph, in the store's scan order
    kg_open,        \* the driver of kg_connector is open
    stdout,         \* what the run has printed: statuses and the final flow
    plan_log,       \* history: the statuses plan_step has returned in this run
    check_log       \* history: per SUCCESS plan of this run, the materials its
                    \* incompatibility checks were given, and its target

vars == <<pc, n_files, i, map_n, map_n1, changes, result, found, wafer_state,
          process_flow, kg, kg_open, stdout, plan_log, check_log>>

---------------------------------------------------------------------------
(* Bounds of the model *)

GridW == 7
GridH == 7
MaxMaterialId == 2
MaxSnapshots == 3
MaxTools == 2

---------------------------------------------------------------------------
(* perception/segmentation.py: material identifiers *)

MATERIAL_MAP ==
    <<"vacuum", "silicon", "silicon_dioxide", "polysilicon",
      "photoresist", "aluminum", "copper", "silicon_nitride">>

\* ID_TO_MATERIAL.get(mat_id, 'unknown'); ids are 0-based, the tuple 1-based
ID_TO_MATERIAL_get(mat_id) ==
    IF mat_id \in 0..(Len(MATERIAL_MAP) - 1)
    THEN MATERIAL_MAP[mat_id + 1]
    ELSE "unknown"

---------------------------------------------------------------------------
(* Material maps: 2-D arrays of material ids, a sequence of rows as in     *)
(* numpy.  A cell is <<x, y>>, 0-based as in cv2 (x = column, y = row).    *)

\* map[y, x]
At(map, c) == map[c[2] + 1][c[1] + 1]

\* map.shape
Shape(map) == <<Len(map), Len(map[1])>>

CellsOf(map) == (0..(Len(map[1]) - 1)) \X (0..(Len(map) - 1))

\* The bounded family of maps: vacuum everywhere except two rectangular
\* features separated by one column, each filled with one material.
\* Feature 1 is 3 x 7 (tall), feature 2 is 3 x 6.
Features ==
    <<[x |-> 0, y |-> 0, w |-> 3, h |-> 7],
      [x |-> 4, y |-> 0, w |-> 3, h |-> 6]>>

InRect(c, r) ==
    /\ c[1] >= r.x /\ c[1] < r.x + r.w
    /\ c[2] >= r.y /\ c[2] < r.y + r.h

MakeMap(fill) ==
    [row \in 1..GridH |-> [col \in 1..GridW |->
        IF InRect(<<col - 1, row - 1>>, Features[1]) THEN fill[1]
        ELSE IF InRect(<<col - 1, row - 1>>, Features[2]) THEN fill[2]
        ELSE 0]]

Maps == {MakeMap(fill) : fill \in [1..Len(Features) -> 0..MaxMaterialId]}


\* A map of another shape, for the dimension check of analyze_difference
NarrowMaps == {[row \in 1..GridH |-> [col \in 1..(GridW - 1) |-> 0]]}

---------------------------------------------------------------------------
(* Helpers standing for numpy / cv2 primitives *)

\* Python's None
None == "None"

Min(S) == CHOOSE v \in S : \A u \in S : v <= u
Max(S) == CHOOSE v \in S : \A u \in S : v >= u

\* np.unique: the distinct values in ascending order
RECURSIVE np_unique(_)
np_unique(S) ==
    IF S = {} THEN <<>>
    ELSE LET m == Min(S) IN <<m>> \o np_unique(S \ {m})

\* c comes no later than d in row-major (C) order, the order of boolean
\* indexing and of the raster scan
RowMajor(c, d) == c[2] < d[2] \/ (c[2] = d[2] /\ c[1] <= d[1])

FirstRowMajor(S) == CHOOSE c \in S : \A d \in S : RowMajor(c, d)

\* cv2.findContours works on 8-connected foreground blobs
Adjacent(c, d) ==
    /\ c[1] - d[1] \in {-1, 0, 1}
    /\ c[2] - d[2] \in {-1, 0, 1}

RECURSIVE Flood(_, _)
Flood(mask, blob) ==
    LET grown == blob \cup {d \in mask : \E c \in blob : Adjacent(c, d)}
    IN  IF grown = blob THEN blob ELSE Flood(mask, grown)

\* cv2.findContours(mask, RETR_EXTERNAL, CHAIN_APPROX_SIMPLE): one external
\* contour per blob; each is represented by the set of cells of its blob.
\* OpenCV finds the blobs in raster order and returns them last-found first.
RECURSIVE findContours(_)
findContours(mask) ==
    IF mask = {} THEN <<>>
    ELSE LET blob == Flood(mask, {FirstRowMajor(mask)})
         IN  findContours(mask \ blob) \o <<blob>>

\* cv2.boundingRect(contour) -> (x, y, w, h)
boundingRect(blob) ==
    LET xs == {c[1] : c \in blob}
        ys == {c[2] : c \in blob}
    IN  [x |-> Min(xs), y |-> Min(ys),
         w |-> Max(xs) - Min(xs) + 1, h |-> Max(ys) - Min(ys) + 1]

\* cv2.contourArea(contour): the area of the polygon through the centres of
\* the border cells.  For a filled axis-parallel rectangle of w x h cells
\* that is (w-1)*(h-1); every blob of the bounded maps is such a rectangle.
contourArea(blob) ==
    LET r == boundingRect(blob) IN (r.w - 1) * (r.h - 1)

---------------------------------------------------------------------------
(* perception/differencing.py *)

\* the "Ignore tiny noise" threshold of _extract_features
MIN_CONTOUR_AREA == 10

\* the profile heuristic; aspect_ratio = w / h is a float in the source, so
\* w/h < 0.5 is 2w < h and w/h > 5 is w > 5h
Profile(change_type, w, h) ==
    IF change_type = "removal"
    THEN (IF 2 * w < h THEN "anisotropic" ELSE "isotropic")
    ELSE IF change_type = "addition"
    THEN (IF w > 5 * h THEN "conformal" ELSE "planar")
    ELSE "unknown"

Feature(blob, value, change_type, original_mat_id) ==
    LET r == boundingRect(blob)
        mat_id == IF change_type = "addition" THEN value ELSE original_mat_id
    IN  [change_type |-> change_type,
         material_id |-> ID_TO_MATERIAL_get(mat_id),
         area |-> contourArea(blob),
         bounding_box |-> <<r.x, r.y, r.w, r.h>>,
         thickness |-> r.h,
         width |-> r.w,
         profile |-> Profile(change_type, r.w, r.h)]

RECURSIVE FeaturesOf(_, _, _, _)
FeaturesOf(contours, value, change_type, original_mat_id) ==
    IF contours = <<>> THEN <<>>
    ELSE LET rest == FeaturesOf(Tail(contours), value, change_type, original_mat_id)
         IN  IF contourArea(Head(contours)) < MIN_CONTOUR_AREA
             THEN rest
             ELSE <<Feature(Head(contours), value, change_type, original_mat_id)>>
                  \o rest

_extract_features(delta_map, value, change_type, original_mat_id) ==
    LET mask == {c \in CellsOf(delta_map) : At(delta_map, c) = value}
    IN  FeaturesOf(findContours(mask), value, change_type, original_mat_id)

RECURSIVE Additions(_, _)
Additions(delta_map, added_materials) ==
    IF added_materials = <<>> THEN <<>>
    ELSE _extract_features(delta_map, Head(added_materials), "addition", None)
         \o Additions(delta_map, Tail(added_materials))

\* original_mat_id = map1[delta_map == mat_id][0]: the material of the first
\* cell, in row-major order, that carries the delta value
OriginalMatId(map1, delta_map, mat_id) ==
    At(map1, FirstRowMajor({c \in CellsOf(delta_map) : At(delta_map, c) = mat_id}))

RECURSIVE Removals(_, _, _)
Removals(map1, delta_map, removed_materials) ==
    IF removed_materials = <<>> THEN <<>>
    ELSE _extract_features(delta_map, Head(removed_materials), "removal",
                           OriginalMatId(map1, delta_map, Head(removed_materials)))
         \o Removals(map1, delta_map, Tail(removed_materials))

\* analyze_difference for maps of equal shape (the caller checks the shape)
analyze_difference(map1, map2) ==
    LET delta_map == [row \in 1..Len(map1) |-> [col \in 1..Len(map1[1]) |->
                            map2[row][col] - map1[row][col]]]
        values == {At(delta_map, c) : c \in CellsOf(delta_map)}
        added_materials == np_unique({v \in values : v > 0})
        removed_materials == np_unique({v \in values : v < 0})
    IN  Additions(delta_map, added_materials)
        \o Removals(map1, delta_map, removed_materials)


---------------------------------------------------------------------------
(* cognitive/knowledge_graph.py.  The store is a sequence of Tool nodes in *)
(* the order the store scans them.  A node carries its properties, its     *)
(* (:Tool)-->(:Process)-->(:Material) paths as <<category, material>>      *)
(* pairs, and the materials it has a direct (:Tool)-->(:Material) edge to. *)

RECURSIVE SelectRows(_, _, _, _)
SelectRows(store, process_category, material_name, wafer_size) ==
    IF store = <<>> THEN <<>>
    ELSE LET t == Head(store)
             rest == SelectRows(Tail(store), process_category, material_name, wafer_size)
         IN  IF /\ <<process_category, material_name>> \in t.processes
                /\ t.status = "online"
                /\ t.wafer_size = wafer_size
             THEN <<[tool_id |-> t.tool_id, tool_name |-> t.name,
                     model_path |-> t.surrogate_model_path]>> \o rest
             ELSE rest

find_capable_tools(store, process_category, material_name, wafer_size) ==
    SelectRows(store, process_category, material_name, wafer_size)

Elements(list) == {list[k] : k \in 1..Len(list)}

\* count(m) > 0 over the Material neighbours of the tool named in
\* processed_materials; the aggregate always yields one row
check_incompatibility(store, tool_id, processed_materials) ==
    \E k \in 1..Len(store) :
        /\ store[k].tool_id = tool_id
        /\ store[k].adverse \cap Elements(processed_materials) # {}

---------------------------------------------------------------------------
(* cognitive/reasoning_engine.py *)

\* the None that _infer_process returns, in the shape of its other results
NoProcess == [category |-> None, material |-> None]

\* Variant of _infer_process: the profile of a removal is not consulted
_infer_processAnyRemoval(change) ==
    IF change.change_type = "addition" /\ change.profile \in {"conformal", "planar"}
    THEN [category |-> "Deposition", material |-> change.material_id]
    ELSE IF change.change_type = "removal"
    THEN [category |-> "Etch", material |-> change.material_id]
    ELSE NoProcess

\* Variant of _infer_process: a rule for Lithography has been added
_infer_processLitho(change) ==
    IF change.change_type = "addition" /\ change.profile \in {"conformal", "planar"}
    THEN [category |-> "Deposition", material |-> change.material_id]
    ELSE IF change.change_type = "removal" /\ change.profile = "anisotropic"
    THEN [category |-> "Etch", material |-> change.material_id]
    ELSE IF change.change_type = "removal" /\ change.profile = "isotropic"
    THEN [category |-> "Lithography", material |-> change.material_id]
    ELSE NoProcess

\* _infer_process reads three keys of the record and has no raising statement
_infer_process(change) ==
    IF change.change_type = "addition" /\ change.profile \in {"conformal", "planar"}
    THEN [category |-> "Deposition", material |-> change.material_id]
    ELSE IF change.change_type = "removal"
            /\ change.profile \in {"anisotropic", "isotropic"}
    THEN [category |-> "Etch", material |-> change.material_id]
    ELSE NoProcess
\* Variant of FilterValid: no candidate is dropped
FilterValidKeepAll(store, candidate_tools, materials_present) ==
    candidate_tools

\* the constraint-filtering loop of plan_step
RECURSIVE FilterValid(_, _, _)
FilterValid(store, candidate_tools, materials_present) ==
    IF candidate_tools = <<>> THEN <<>>
    ELSE LET tool == Head(candidate_tools)
             rest == FilterValid(store, Tail(candidate_tools), materials_present)
         IN  IF ~check_incompatibility(store, tool.tool_id, materials_present)
             THEN <<tool>> \o rest
             ELSE rest

\* Variant of PlannedChange: the last record is planned, not the first
PlannedChangeLast(chs) == chs[Len(chs)]

\* change = changes[0]
PlannedChange(chs) == chs[1]

\* plan_step reaches its store queries
Queries(chs) == chs # <<>> /\ _infer_process(PlannedChange(chs)) # NoProcess

\* the list find_capable_tools returns inside plan_step (empty when plan_step
\* returns before the query)
Candidates(store, chs, ws) ==
    IF ~Queries(chs) THEN <<>>
    ELSE LET inferred_process == _infer_process(PlannedChange(chs))
         IN  find_capable_tools(store, inferred_process.category,
                                     inferred_process.material, ws.size)

plan_step(store, chs, ws) ==
    IF chs = <<>> THEN [status |-> "NO_CHANGE", plan |-> None]
    ELSE
      LET change == PlannedChange(chs)
          inferred_process == _infer_process(change)
      IN  IF inferred_process = NoProcess
          THEN [status |-> "FAILED_INFERENCE", plan |-> None]
          ELSE
            LET candidate_tools ==
                    find_capable_tools(store, inferred_process.category,
                                       inferred_process.material, ws.size)
                valid_tools ==
                    FilterValid(store, candidate_tools, ws.materials_present)
            IN  IF valid_tools = <<>>
                THEN [status |-> "NO_VALID_TOOLS", plan |-> None]
                ELSE [status |-> "SUCCESS",
                      plan |-> [process_category |-> inferred_process.category,
                                target_material |-> inferred_process.material,
                                target_geometry |->
                                    [thickness |-> change.thickness,
                                     width |-> change.width],
                                candidate_tools |-> valid_tools]]


---------------------------------------------------------------------------
(* agent.py and action/optimizer.py *)

WAFER_SIZE == 300

\* ProcessOptimizer.optimize: the fitted parameters when scipy's minimize
\* reports success, None otherwise
OptimizeOutcomes == {"optimized_params", None}

\* the recipe of the Lithography branch, with or without a mask file
LithoRecipe(has_layout) ==
    IF has_layout THEN "litho_recipe_with_mask" ELSE "litho_recipe"

\* list(set(xs)): the distinct elements of xs, in any order
RECURSIVE Orderings(_)
Orderings(S) ==
    IF S = {} THEN {<<>>}
    ELSE UNION {{<<x>> \o rest : rest \in Orderings(S \ {x})} : x \in S}

ListOfSet(xs) == Orderings(Elements(xs))
\* Variant of ProcessStep: the last candidate is selected, not the first
ProcessStepLast(k, plan, recipe) ==
    [step_number |-> k + 1,
     process_type |-> plan.process_category,
     tool_id |-> plan.candidate_tools[Len(plan.candidate_tools)].tool_id,
     recipe_parameters |-> recipe]

\* Variant of ProcessStep: the step is numbered by the loop variable itself
ProcessStepZeroBased(k, plan, recipe) ==
    [step_number |-> k,
     process_type |-> plan.process_category,
     tool_id |-> plan.candidate_tools[1].tool_id,
     recipe_parameters |-> recipe]

\* the dict appended to process_flow
ProcessStep(k, plan, recipe) ==
    [step_number |-> k + 1,
     process_type |-> plan.process_category,
     tool_id |-> plan.candidate_tools[1].tool_id,
     recipe_parameters |-> recipe]
\* Variant of UpdatedMaterials: the list is replaced, not extended
UpdatedMaterialsReplace(materials_present, target_material) ==
    {<<target_material>>}

\* Variant of UpdatedMaterials: the duplicate removal is left out
UpdatedMaterialsNoDedup(materials_present, target_material) ==
    {Append(materials_present, target_material)}

\* self.wafer_state['materials_present'].append(target_material), then the
\* duplicate removal
UpdatedMaterials(materials_present, target_material) ==
    ListOfSet(Append(materials_present, target_material))

NoMap == <<>>
NoResult == [status |-> "-", plan |-> None]

\* the entry of check_log for a SUCCESS plan: the materials_present of the
\* wafer state plan_step was called with (the argument of every
\* check_incompatibility call of its filter loop) and the plan's target
Checked(ws, plan) ==
    [checked |-> Elements(ws.materials_present),
     target |-> plan.target_material]

\* the wafer state an agent is constructed with
FreshWaferState == [size |-> WAFER_SIZE, materials_present |-> <<"silicon">>]

---------------------------------------------------------------------------
(* The knowledge graphs the runs are checked against *)

Categories == {"Deposition", "Etch"}

\* the materials a map can show, vacuum apart
MaterialNames == {ID_TO_MATERIAL_get(k) : k \in 1..MaxMaterialId}

ToolNode(k, processes, status, size, adverse) ==
    [tool_id |-> k, name |-> k, surrogate_model_path |-> k,
     processes |-> processes, status |-> status, wafer_size |-> size,
     adverse |-> adverse]

AdverseSets == {{}} \cup {{m} : m \in MaterialNames}

\* a tool that is online, serves the wafer size and can run every category
\* on every material, with direct edges to the materials of `adverse`
CapableNode(k, adverse) ==
    ToolNode(k, Categories \X MaterialNames, "online", WAFER_SIZE, adverse)

OfflineNode(k) ==
    ToolNode(k, Categories \X MaterialNames, "offline", WAFER_SIZE, {})

\* a usable tool that can also run Lithography on every material
LithoCapableNode(k) ==
    ToolNode(k, (Categories \cup {"Lithography"}) \X MaterialNames, "online",
             WAFER_SIZE, {})

\* the stores of the runs of generate_flow: no tool; one or two usable
\* tools; a first tool that is adverse to the silicon every wafer starts
\* with; tools that turn adverse once silicon dioxide has been processed;
\* an offline tool; a tool that also runs Lithography
FlowStores ==
    {<<>>,
     <<LithoCapableNode(1)>>,
     <<CapableNode(1, {})>>,
     <<CapableNode(1, {}), CapableNode(2, {})>>,
     <<CapableNode(1, {"silicon"}), CapableNode(2, {})>>,
     <<CapableNode(1, {"silicon_dioxide"}), CapableNode(2, {})>>,
     <<CapableNode(1, {"silicon_dioxide"})>>,
     <<OfflineNode(1), CapableNode(2, {"silicon_dioxide"})>>}

\* what the SENSE stage can deliver: the two segmented maps (any two maps of
\* the bounded family, the segmenter being opaque) and their change list
Perceptions ==
    {[map_n |-> m1, map_n1 |-> m2, changes |-> analyze_difference(m1, m2)] :
        m1 \in Maps, m2 \in Maps}

---------------------------------------------------------------------------
(* Spec: one run of generate_flow on a freshly constructed agent *)

Init ==
    /\ pc = "loop"
    /\ n_files \in 0..MaxSnapshots
    /\ i = 0
    /\ map_n = NoMap
    /\ map_n1 = NoMap
    /\ changes = <<>>
    /\ result = NoResult
    /\ found = <<>>
    /\ wafer_state = FreshWaferState
    /\ process_flow = <<>>
    /\ kg \in FlowStores
    /\ kg_open = TRUE
    /\ stdout = <<>>
    /\ plan_log = <<>>
    /\ check_log = <<>>

\* SENSE: align_images, imread, segment_image twice, analyze_difference.
\* The aligned image is warped to the size of the reference image, so the
\* two maps have the same shape.
Sense ==
    /\ pc = "loop"
    /\ i < n_files - 1
    /\ \E sensed \in Perceptions :
        /\ map_n' = sensed.map_n
        /\ map_n1' = sensed.map_n1
        /\ changes' = sensed.changes
    /\ pc' = "plan"
    /\ UNCHANGED <<n_files, i, result, found, wafer_state, process_flow, kg,
                   kg_open, stdout, plan_log, check_log>>

\* align_images raises (an unreadable snapshot, too few feature matches):
\* nothing in generate_flow catches it
SenseRaise ==
    /\ pc = "loop"
    /\ i < n_files - 1
    /\ pc' = "crashed"
    /\ UNCHANGED <<n_files, i, map_n, map_n1, changes, result, found,
                   wafer_state, process_flow, kg, kg_open, stdout, plan_log, check_log>>

\* Variant of Plan: plan_step is given the wafer state of a fresh agent
\* instead of the current one
PlanStale ==
    /\ pc = "plan"
    /\ result' = plan_step(kg, changes, FreshWaferState)
    /\ plan_log' = Append(plan_log, result'.status)
    /\ IF result'.status # "SUCCESS"
       THEN /\ stdout' = Append(stdout, [kind |-> "AGENT ERROR",
                                         status |-> result'.status,
                                         flow |-> <<>>])
            /\ pc' = "final"
            /\ map_n' = NoMap
            /\ map_n1' = NoMap
            /\ changes' = <<>>
            /\ found' = <<>>
            /\ check_log' = check_log
       ELSE /\ stdout' = stdout
            /\ pc' = "act"
            /\ found' = Candidates(kg, changes, FreshWaferState)
            /\ check_log' = Append(check_log,
                                   Checked(FreshWaferState, result'.plan))
            /\ UNCHANGED <<map_n, map_n1, changes>>
    /\ UNCHANGED <<n_files, i, wafer_state, process_flow, kg, kg_open>>

\* Variant of Plan: a status other than SUCCESS skips to the next
\* transition instead of leaving the loop
PlanContinue ==
    /\ pc = "plan"
    /\ result' = plan_step(kg, changes, wafer_state)
    /\ plan_log' = Append(plan_log, result'.status)
    /\ IF result'.status # "SUCCESS"
       THEN /\ stdout' = Append(stdout, [kind |-> "AGENT ERROR",
                                         status |-> result'.status,
                                         flow |-> <<>>])
            /\ pc' = "loop"
            /\ i' = i + 1
            /\ map_n' = NoMap
            /\ map_n1' = NoMap
            /\ changes' = <<>>
            /\ found' = <<>>
            /\ check_log' = check_log
       ELSE /\ stdout' = stdout
            /\ pc' = "act"
            /\ i' = i
            /\ found' = Candidates(kg, changes, wafer_state)
            /\ check_log' = Append(check_log,
                                   Checked(wafer_state, result'.plan))
            /\ UNCHANGED <<map_n, map_n1, changes>>
    /\ UNCHANGED <<n_files, wafer_state, process_flow, kg, kg_open>>

\* PLAN: plan_step, and the break on a status other than SUCCESS.  After the
\* break only process_flow is read, so the locals of the iteration are dead.
Plan ==
    /\ pc = "plan"
    /\ result' = plan_step(kg, changes, wafer_state)
    /\ plan_log' = Append(plan_log, result'.status)
    /\ IF result'.status # "SUCCESS"
       THEN /\ stdout' = Append(stdout, [kind |-> "AGENT ERROR",
                                         status |-> result'.status,
                                         flow |-> <<>>])
            /\ pc' = "final"
            /\ map_n' = NoMap
            /\ map_n1' = NoMap
            /\ changes' = <<>>
            /\ found' = <<>>
            /\ check_log' = check_log
       ELSE /\ stdout' = stdout
            /\ pc' = "act"
            /\ found' = Candidates(kg, changes, wafer_state)
            /\ check_log' = Append(check_log,
                                   Checked(wafer_state, result'.plan))
            /\ UNCHANGED <<map_n, map_n1, changes>>
    /\ UNCHANGED <<n_files, i, wafer_state, process_flow, kg, kg_open>>

\* a store query of plan_step raises (the store is unavailable): nothing in
\* plan_step or generate_flow catches it, and the frame is gone
PlanRaise ==
    /\ pc = "plan"
    /\ Queries(changes)
    /\ pc' = "crashed"
    /\ map_n' = NoMap
    /\ map_n1' = NoMap
    /\ changes' = <<>>
    /\ UNCHANGED <<n_files, i, result, found, wafer_state, process_flow, kg,
                   kg_open, stdout, plan_log, check_log>>

\* ACT: pick the first candidate, build the recipe, record the step and
\* update the wafer state; the locals of the iteration are dead afterwards
Act ==
    /\ pc = "act"
    /\ LET plan == result.plan IN
        /\ \E recipe \in
                (IF plan.process_category = "Lithography"
                 THEN {LithoRecipe(TRUE), LithoRecipe(FALSE)}
                 ELSE OptimizeOutcomes) :
            process_flow' = Append(process_flow, ProcessStep(i, plan, recipe))
        /\ \E materials \in UpdatedMaterials(wafer_state.materials_present,
                                             plan.target_material) :
            wafer_state' = [wafer_state EXCEPT !.materials_present = materials]
    /\ i' = i + 1
    /\ pc' = "loop"
    /\ map_n' = NoMap
    /\ map_n1' = NoMap
    /\ changes' = <<>>
    /\ result' = NoResult
    /\ found' = <<>>
    /\ UNCHANGED <<n_files, kg, kg_open, stdout, plan_log, check_log>>

\* the loop has run through all transitions
LoopEnd ==
    /\ pc = "loop"
    /\ ~(i < n_files - 1)
    /\ pc' = "final"
    /\ UNCHANGED <<n_files, i, map_n, map_n1, changes, result, found,
                   wafer_state, process_flow, kg, kg_open, stdout, plan_log, check_log>>

\* after the loop: print the flow and close the connector
Report ==
    /\ pc = "final"
    /\ stdout' = Append(stdout, [kind |-> "FINAL FLOW", status |-> "-",
                                 flow |-> process_flow])
    /\ kg_open' = FALSE
    /\ pc' = "done"
    /\ UNCHANGED <<n_files, i, map_n, map_n1, changes, result, found,
                   wafer_state, process_flow, kg, plan_log, check_log>>

Next ==
    \/ Sense
    \/ SenseRaise
    \/ Plan
    \/ PlanRaise
    \/ Act
    \/ LoopEnd
    \/ Report

Spec == Init /\ [][Next]_vars

---------------------------------------------------------------------------
(* SpecDiff: analyze_difference on pairs of material maps *)

InitDiff ==
    /\ pc = "diff"
    /\ map_n \in Maps
    /\ map_n1 \in Maps \cup NarrowMaps
    /\ n_files = 0
    /\ i = 0
    /\ changes = <<>>
    /\ result = NoResult
    /\ found = <<>>
    /\ wafer_state = FreshWaferState
    /\ process_flow = <<>>
    /\ kg = <<>>
    /\ kg_open = TRUE
    /\ stdout = <<>>
    /\ plan_log = <<>>
    /\ check_log = <<>>

\* map1.shape != map2.shape
ShapesDiffer(map1, map2) == Shape(map1) # Shape(map2)

Diff ==
    /\ pc = "diff"
    /\ ~ShapesDiffer(map_n, map_n1)
    /\ changes' = analyze_difference(map_n, map_n1)
    /\ pc' = "diffed"
    /\ UNCHANGED <<n_files, i, map_n, map_n1, result, found, wafer_state,
                   process_flow, kg, kg_open, stdout, plan_log, check_log>>

\* raise ValueError("Material maps must have the same dimensions.")
DiffRaise ==
    /\ pc = "diff"
    /\ ShapesDiffer(map_n, map_n1)
    /\ pc' = "ValueError"
    /\ UNCHANGED <<n_files, i, map_n, map_n1, changes, result, found,
                   wafer_state, process_flow, kg, kg_open, stdout, plan_log, check_log>>

NextDiff ==
    \/ Diff
    \/ DiffRaise

SpecDiff == InitDiff /\ [][NextDiff]_vars

---------------------------------------------------------------------------
(* SpecPlan: plan_step on change lists, wafer states and stores drawn from *)
(* bounded sets, wider than what one run of generate_flow passes to it     *)

Profiles == {"conformal", "planar", "anisotropic", "isotropic", "unknown"}

\* first records carry the geometry of feature 1
ChangeRecords ==
    {[change_type |-> ct,
      material_id |-> m,
      area |-> (Features[1].w - 1) * (Features[1].h - 1),
      bounding_box |-> <<Features[1].x, Features[1].y, Features[1].w, Features[1].h>>,
      thickness |-> Features[1].h,
      width |-> Features[1].w,
      profile |-> p] :
        ct \in {"addition", "removal"}, m \in MaterialNames, p \in Profiles}

\* the records tried in second place carry the geometry of feature 2
TrailingRecords ==
    {[change_type |-> ct,
      material_id |-> "silicon",
      area |-> (Features[2].w - 1) * (Features[2].h - 1),
      bounding_box |-> <<Features[2].x, Features[2].y, Features[2].w, Features[2].h>>,
      thickness |-> Features[2].h,
      width |-> Features[2].w,
      profile |-> "planar"] :
        ct \in {"addition", "removal"}}

PlanChangeLists ==
    {<<>>} \cup {<<r>> : r \in ChangeRecords}
           \cup {<<r, t>> : r \in ChangeRecords, t \in TrailingRecords}

\* wafer states: silicon and any further materials
PlanWaferStates ==
    {[size |-> WAFER_SIZE, materials_present |-> ms] :
        ms \in UNION {Orderings(S \cup {"silicon"}) : S \in SUBSET MaterialNames}}

OTHER_WAFER_SIZE == WAFER_SIZE - 100

\* what a tool of the bounded stores can run: one category on every
\* material, or every category on silicon only
ProcessSets ==
    {{c} \X MaterialNames : c \in Categories}
    \cup {Categories \X {"silicon"}}

PlanNodes(k) ==
    {ToolNode(k, ps, "online", WAFER_SIZE, a) :
        ps \in ProcessSets, a \in AdverseSets}
    \cup {OfflineNode(k),
          ToolNode(k, Categories \X MaterialNames, "online", OTHER_WAFER_SIZE, {})}

RECURSIVE PlanStoresOfLen(_)
PlanStoresOfLen(len) ==
    IF len = 0 THEN {<<>>}
    ELSE {Append(st, t) : st \in PlanStoresOfLen(len - 1), t \in PlanNodes(len)}

PlanStores == UNION {PlanStoresOfLen(len) : len \in 0..MaxTools}

InitPlan ==
    /\ pc = "plan_step"
    /\ changes \in PlanChangeLists
    /\ wafer_state \in PlanWaferStates
    /\ kg \in PlanStores
    /\ n_files = 0
    /\ i = 0
    /\ map_n = NoMap
    /\ map_n1 = NoMap
    /\ result = NoResult
    /\ found = <<>>
    /\ process_flow = <<>>
    /\ kg_open = TRUE
    /\ stdout = <<>>
    /\ plan_log = <<>>
    /\ check_log = <<>>

PlanStep ==
    /\ pc = "plan_step"
    /\ result' = plan_step(kg, changes, wafer_state)
    /\ found' = Candidates(kg, changes, wafer_state)
    /\ pc' = "planned"
    /\ UNCHANGED <<n_files, i, map_n, map_n1, changes, wafer_state,
                   process_flow, kg, kg_open, stdout, plan_log, check_log>>

NextPlan == PlanStep

SpecPlan == InitPlan /\ [][NextPlan]_vars

---------------------------------------------------------------------------
(* SpecInfer: _infer_process on every (change_type, profile, material) of   *)
(* its domain.  Here `changes` holds the one record passed and `result`     *)
(* the value returned (NoProcess for None).                                *)

\* every name of MATERIAL_MAP and the 'unknown' of an id outside it
InferMaterials == {ID_TO_MATERIAL_get(k) : k \in 0..Len(MATERIAL_MAP)}

InferRecords ==
    {[change_type |-> ct,
      material_id |-> m,
      area |-> (Features[1].w - 1) * (Features[1].h - 1),
      bounding_box |-> <<Features[1].x, Features[1].y, Features[1].w, Features[1].h>>,
      thickness |-> Features[1].h,
      width |-> Features[1].w,
      profile |-> p] :
        ct \in {"addition", "removal"}, m \in InferMaterials, p \in Profiles}

InitInfer ==
    /\ pc = "infer"
    /\ changes \in {<<r>> : r \in InferRecords}
    /\ result = NoResult
    /\ wafer_state = FreshWaferState
    /\ kg = <<>>
    /\ n_files = 0
    /\ i = 0
    /\ map_n = NoMap
    /\ map_n1 = NoMap
    /\ found = <<>>
    /\ process_flow = <<>>
    /\ kg_open = TRUE
    /\ stdout = <<>>
    /\ plan_log = <<>>
    /\ check_log = <<>>

\* inferred_process = self._infer_process(change)
Infer ==
    /\ pc = "infer"
    /\ result' = _infer_process(changes[1])
    /\ pc' = "inferred"
    /\ UNCHANGED <<n_files, i, map_n, map_n1, changes, found, wafer_state,
                   process_flow, kg, kg_open, stdout, plan_log, check_log>>

NextInfer == Infer

SpecInfer == InitInfer /\ [][NextInfer]_vars

---------------------------------------------------------------------------
(* Properties *)

Last(list) == list[Len(list)]

Successes(log) == Cardinality({k \in 1..Len(log) : log[k] = "SUCCESS"})

\* range(len(schematic_files) - 1)
Transitions == IF n_files > 0 THEN n_files - 1 ELSE 0

\* C1: generate_flow stops at the first transition whose plan_step status is
\* not SUCCESS: nothing is planned or perceived after it (only the last
\* logged status can be a non-SUCCESS, the run is then past the loop and the
\* loop variable still names that transition), and at the end of the run the
\* flow holds one step per transition planned with SUCCESS -- all
\* transitions when the loop ran through with none failing.
C1_HaltsOnFirstNonSuccess ==
    /\ \A k \in 1..(Len(plan_log) - 1) : plan_log[k] = "SUCCESS"
    /\ (plan_log # <<>> /\ Last(plan_log) # "SUCCESS") =>
          /\ pc \in {"final", "done"}
          /\ i = Len(plan_log) - 1
          /\ map_n = NoMap /\ changes = <<>>
    /\ pc \in {"final", "done", "crashed"} =>
          Len(process_flow) = Successes(plan_log)
    /\ (pc \in {"final", "done"} /\ Successes(plan_log) = Len(plan_log)) =>
          Len(process_flow) = Transitions

\* C1 witness: a finished run over three snapshots whose first transition was
\* planned with SUCCESS and whose second was not; the flow holds one step
C1_Witness ==
    /\ pc = "done"
    /\ n_files = 3
    /\ Len(plan_log) = 2
    /\ plan_log[1] = "SUCCESS"
    /\ plan_log[2] # "SUCCESS"
    /\ Len(process_flow) = 1

NoDuplicates(list) == Cardinality(Elements(list)) = Len(list)

\* C2: every step of a run leaves materials_present a superset of what it
\* was, and free of duplicates
C2_MaterialsAccumulate ==
    [][/\ Elements(wafer_state.materials_present)
            \subseteq Elements(wafer_state'.materials_present)
       /\ NoDuplicates(wafer_state'.materials_present)]_vars

\* C2 witness: two steps were appended and one of them targeted a material
\* that was already present
C2_Witness ==
    /\ Len(process_flow) = 2
    /\ Len(wafer_state.materials_present) = 2

\* C3: no tool among the candidate_tools of a SUCCESS plan is flagged
\* incompatible with the materials present on the wafer
C3_NoIncompatibleTool ==
    (pc = "planned" /\ result.status = "SUCCESS") =>
        \A k \in 1..Len(result.plan.candidate_tools) :
            ~check_incompatibility(kg, result.plan.candidate_tools[k].tool_id,
                                   wafer_state.materials_present)

\* C3 witness: a SUCCESS plan for which the store returned more capable tools
\* than the plan keeps
C3_Witness ==
    /\ pc = "planned"
    /\ result.status = "SUCCESS"
    /\ Len(found) > Len(result.plan.candidate_tools)

\* C4 (as claimed): a step whose recipe optimization failed is never appended
\* to the flow
C4_OptimizeFailureHalts ==
    \A k \in 1..Len(process_flow) : process_flow[k].recipe_parameters # None

\* C5 (as claimed): every run that has ended has, as the last thing it did,
\* reported the flow built so far
C5_AlwaysReportsFlow ==
    pc \in {"done", "crashed"} =>
        /\ stdout # <<>>
        /\ Last(stdout).kind = "FINAL FLOW"
        /\ Last(stdout).flow = process_flow

\* the rule table of the inferencer, as the specification states it
C6_Inferable(c) ==
    \/ c.change_type = "addition" /\ c.profile \in {"conformal", "planar"}
    \/ c.change_type = "removal" /\ c.profile \in {"anisotropic", "isotropic"}

C6_Category(c) == IF c.change_type = "addition" THEN "Deposition" ELSE "Etch"

\* the positions in the store of the tools that can run the category on the
\* material of c, are online, serve the wafer size and have no edge to a
\* material present on the wafer
C6_SurvivorIdx(c) ==
    {k \in 1..Len(kg) :
        /\ <<C6_Category(c), c.material_id>> \in kg[k].processes
        /\ kg[k].status = "online"
        /\ kg[k].wafer_size = wafer_state.size
        /\ \A m \in kg[k].adverse :
              \A j \in 1..Len(wafer_state.materials_present) :
                  wafer_state.materials_present[j] # m}

C6_Survivors(c) ==
    LET idx == np_unique(C6_SurvivorIdx(c))
    IN  [j \in 1..Len(idx) |->
            [tool_id |-> kg[idx[j]].tool_id, tool_name |-> kg[idx[j]].name,
             model_path |-> kg[idx[j]].surrogate_model_path]]

\* C6: plan_step classifies by the first change record alone: NO_CHANGE for
\* an empty list; else FAILED_INFERENCE when the rule table has no entry for
\* the first record; else NO_VALID_TOOLS when no capable tool survives the
\* incompatibility filter; else SUCCESS with the inferred category, the
\* record's material, its thickness and width, and the surviving tools
C6_PlanStepClassifies ==
    pc = "planned" =>
        IF changes = <<>>
        THEN result.status = "NO_CHANGE" /\ result.plan = None
        ELSE LET c == changes[1] IN
            IF ~C6_Inferable(c)
            THEN result.status = "FAILED_INFERENCE" /\ result.plan = None
            ELSE IF C6_Survivors(c) = <<>>
            THEN result.status = "NO_VALID_TOOLS" /\ result.plan = None
            ELSE /\ result.status = "SUCCESS"
                 /\ result.plan =
                        [process_category |-> C6_Category(c),
                         target_material |-> c.material_id,
                         target_geometry |->
                             [thickness |-> c.thickness, width |-> c.width],
                         candidate_tools |-> C6_Survivors(c)]

\* C6 witness: a SUCCESS plan for a list of two records of different change
\* types and geometry
C6_Witness ==
    /\ pc = "planned"
    /\ result.status = "SUCCESS"
    /\ Len(changes) = 2
    /\ changes[2].change_type # changes[1].change_type
    /\ changes[2].thickness # changes[1].thickness

\* the cells of the region of a change record (its bounding box: the regions
\* of the bounded maps are rectangles)
RegionCells(rec) ==
    {c \in (0..(GridW - 1)) \X (0..(GridH - 1)) :
        InRect(c, [x |-> rec.bounding_box[1], y |-> rec.bounding_box[2],
                   w |-> rec.bounding_box[3], h |-> rec.bounding_box[4]])}

\* C7 (as claimed): every Addition record carries the material the `after`
\* map holds at the cells of its region
C7_AdditionCarriesNewMaterial ==
    pc = "diffed" =>
        \A k \in 1..Len(changes) :
            changes[k].change_type = "addition" =>
                \A c \in RegionCells(changes[k]) :
                    changes[k].material_id = ID_TO_MATERIAL_get(At(map_n1, c))

\* C8 (as claimed): every Removal record carries the material the `before`
\* map holds at the cells of its own region
C8_RemovalCarriesOwnOriginal ==
    pc = "diffed" =>
        \A k \in 1..Len(changes) :
            changes[k].change_type = "removal" =>
                \A c \in RegionCells(changes[k]) :
                    changes[k].material_id = ID_TO_MATERIAL_get(At(map_n, c))

\* the positions in `found` of the tools not flagged incompatible with the
\* materials on the wafer
C9_Compatible ==
    {k \in 1..Len(found) :
        ~check_incompatibility(kg, found[k].tool_id,
                               wafer_state.materials_present)}

\* C9: the step appended for a transition names the earliest tool, in the
\* order find_capable_tools returned, that is not flagged incompatible; the
\* candidates of the plan are the compatible tools in that same order
C9_FirstSurvivingTool ==
    [][Len(process_flow') > Len(process_flow) =>
        LET idx == np_unique(C9_Compatible) IN
        /\ idx # <<>>
        /\ Last(process_flow').tool_id = found[idx[1]].tool_id
        /\ result.plan.candidate_tools = [j \in 1..Len(idx) |-> found[idx[j]]]
      ]_vars

\* C9 witness: the first appended step names tool 2 although tool 1, first in
\* the store, is online and capable: tool 1 was filtered out
C9_Witness ==
    /\ Len(process_flow) >= 1
    /\ process_flow[1].tool_id = 2
    /\ Len(kg) = 2
    /\ kg[1].status = "online"

\* the material the later snapshot shows in the region of the planned change
C10_NewMaterial ==
    ID_TO_MATERIAL_get(At(map_n1, <<changes[1].bounding_box[1],
                                    changes[1].bounding_box[2]>>))

\* C10 (as claimed): the wafer state changes only when a step is appended;
\* the step unions in the material newly introduced by the transition and
\* nothing else; the size never changes
C10_UnionsNewMaterial ==
    [][/\ wafer_state' # wafer_state =>
              Len(process_flow') = Len(process_flow) + 1
       /\ Len(process_flow') # Len(process_flow) =>
              Elements(wafer_state'.materials_present) =
                  Elements(wafer_state.materials_present) \cup {C10_NewMaterial}
       /\ wafer_state'.size = wafer_state.size
      ]_vars

\* C10 (amended): the wafer state changes only when a step is appended (so
\* neither plan_step nor a halting transition changes it); every appended
\* step unions in the material of the first change record of its transition
\* -- the plan's target material, which for an Etch step is the removed
\* material -- and nothing else; the size never changes
C10_UnionsTargetMaterial ==
    [][/\ wafer_state' # wafer_state =>
              Len(process_flow') = Len(process_flow) + 1
       /\ Len(process_flow') # Len(process_flow) =>
              Elements(wafer_state'.materials_present) =
                  Elements(wafer_state.materials_present)
                      \cup {changes[1].material_id}
       /\ wafer_state'.size = wafer_state.size
      ]_vars

\* C10 witness: a run whose only step so far is an Etch step, after which the
\* etched silicon dioxide is listed beside the initial silicon
C10_Witness ==
    /\ Len(process_flow) = 1
    /\ process_flow[1].process_type = "Etch"
    /\ Elements(wafer_state.materials_present) = {"silicon", "silicon_dioxide"}

\* the two defined cases of the inference rules
C11_IsDeposition(c) ==
    c.change_type = "addition" /\ c.profile \in {"conformal", "planar"}

C11_IsEtch(c) ==
    c.change_type = "removal" /\ c.profile \in {"anisotropic", "isotropic"}

\* C11: process inference is a total, deterministic function of
\* (change_type, profile, material): once it has returned, the value is
\* Deposition exactly for an Addition with profile conformal or planar, Etch
\* exactly for a Removal with profile anisotropic or isotropic, and None for
\* every other combination (profile unknown included); in the two defined
\* cases the material is the record's material unchanged; the call ends in
\* a return for every input, never in an exception.
C11_InferenceTotal ==
    /\ pc \in {"infer", "inferred"}
    /\ pc = "inferred" =>
        LET c == changes[1] IN
        /\ C11_IsDeposition(c) <=> (result # NoProcess /\ result.category = "Deposition")
        /\ C11_IsEtch(c) <=> (result # NoProcess /\ result.category = "Etch")
        /\ ~(C11_IsDeposition(c) \/ C11_IsEtch(c)) <=> result = NoProcess
        /\ result # NoProcess => result.material = c.material_id

\* a removal of unknown profile has been passed and got no inference
C11_Witness ==
    /\ pc = "inferred"
    /\ changes[1].change_type = "removal"
    /\ changes[1].profile = "unknown"
    /\ result = NoProcess

\* the material set accumulated before the k-th SUCCESS plan of the run:
\* the initial silicon and the targets of the plans before it
C12_Accumulated(k) ==
    {"silicon"} \cup {check_log[j].target : j \in 1..(k - 1)}

\* C12: in a run of generate_flow the tool recorded in the k-th step was
\* checked against, and found not incompatible with, the material set
\* accumulated at that moment: the initial silicon plus the target materials
\* of all steps appended before it.  Every SUCCESS plan has its step
\* appended before the next plan is made, and no incompatibility check is
\* given a set that misses a material an earlier step added.
C12_CheckedAgainstAccumulated ==
    /\ Len(check_log) = Len(process_flow) + (IF pc = "act" THEN 1 ELSE 0)
    /\ \A k \in 1..Len(check_log) : check_log[k].checked = C12_Accumulated(k)
    /\ \A k \in 1..Len(process_flow) :
          \A t \in 1..Len(kg) :
              kg[t].tool_id = process_flow[k].tool_id
                  => kg[t].adverse \cap C12_Accumulated(k) = {}

\* a second step was planned after a first step had added silicon dioxide,
\* and the tool that ran the first step, adverse to silicon dioxide, was
\* passed over for the second
C12_Witness ==
    /\ Len(process_flow) = 2
    /\ check_log[1].target = "silicon_dioxide"
    /\ kg[1].adverse = {"silicon_dioxide"}
    /\ process_flow[1].tool_id = kg[1].tool_id
    /\ process_flow[2].tool_id # kg[1].tool_id

\* C13: no run of generate_flow appends a step whose process category is
\* Lithography: every appended step is a Deposition or an Etch, no plan that
\* reaches the ACT stage takes the Lithography branch (mask extraction and
\* the fixed coat/expose/develop sub-recipes), and the recipe of every
\* appended step is what recipe optimization returned.
C13_NoLithographyStep ==
    /\ \A k \in 1..Len(process_flow) :
          /\ process_flow[k].process_type \in {"Deposition", "Etch"}
          /\ process_flow[k].recipe_parameters \in OptimizeOutcomes
          /\ process_flow[k].recipe_parameters
                \notin {LithoRecipe(TRUE), LithoRecipe(FALSE)}
    /\ pc = "act" => result.plan.process_category # "Lithography"

\* a step has been appended in a run whose store offers a tool for
\* Lithography, and that tool ran it as an Etch of an isotropic removal
C13_Witness ==
    /\ Len(process_flow) >= 1
    /\ \E t \in 1..Len(kg) :
          /\ <<"Lithography", "silicon">> \in kg[t].processes
          /\ process_flow[1].tool_id = kg[t].tool_id
    /\ process_flow[1].process_type = "Etch"

\* C14: at every point of a run of generate_flow on a freshly constructed
\* agent the process flow is append-only and its k-th entry has step_number
\* k: the numbers start at 1 and increase without gaps, and the number of an
\* appended step is the index of the later snapshot of the transition that
\* produced it.  A run over fewer than two snapshots appends nothing.
C14_StepNumbers ==
    [][/\ Len(process_flow') >= Len(process_flow)
       /\ SubSeq(process_flow', 1, Len(process_flow)) = process_flow
       /\ \A k \in 1..Len(process_flow') : process_flow'[k].step_number = k
       /\ Len(process_flow') # Len(process_flow) =>
              /\ Len(process_flow') = Len(process_flow) + 1
              /\ Last(process_flow').step_number = i + 1
              /\ i + 1 \in 1..(n_files - 1)
       /\ n_files < 2 => process_flow' = <<>>]_vars

\* a run over three snapshots has ended with two steps, numbered 1 and 2
C14_Witness ==
    /\ pc = "done"
    /\ n_files = 3
    /\ Len(process_flow) = 2
    /\ process_flow[1].step_number = 1
    /\ process_flow[2].step_number = 2

=============================================================================
